---- MODULE Spec2Model ----
(***************************************************************************)
(* Model of the UAT automation engine of src/uat_automation.py: the       *)
(* validators, TestRunner.run_test / run_suite / get_summary and           *)
(* ReportGenerator.to_json / to_html.                                      *)
(*                                                                         *)
(* Python values are tagged records, dictionaries are functions whose      *)
(* DOMAIN is the set of keys present, time.time() is a wall clock whose    *)
(* readings are drawn from Times (it may step backwards), and the float    *)
(* arithmetic of get_summary is IEEE-754 binary64, computed on bit         *)
(* sequences.                                                              *)
(***************************************************************************)
EXTENDS Integers, Sequences, FiniteSets, TLC

VARIABLES pc, total, tests, results, start_time, end_time, now, monotonic, returned, summary, runs,
          call, report

vars == <<pc, total, tests, results, start_time, end_time, now, monotonic, returned, summary, runs,
          call, report>>

(***************************************************************************)
(* Bounds of the model.                                                    *)
(***************************************************************************)
\* declarations per suite, under Spec
MaxTests == 2

\* declarations per suite, under SpecClock
MaxTimedTests == 1

\* declarations per suite, under SpecSummary
MaxSummaryTests == 3

\* run_suite calls on one runner
MaxRuns == 2

\* the clock readings of SpecClock
MaxTime == 1

Times == 0..MaxTime

\* a clock too coarse to advance during a run
Still == {0}

(***************************************************************************)
(* Python values.                                                          *)
(***************************************************************************)
None == [tag |-> "None"]

PyStr(s) == [tag |-> "str", s |-> s]

PyInt(n) == [tag |-> "int", n |-> n]

PyList(xs) == [tag |-> "list", xs |-> xs]

IsStr(v) == v.tag = "str"

IsInt(v) == v.tag = "int"

\* dict.get(key, default)
Get(d, key, default) == IF key \in DOMAIN d THEN d[key] ELSE default

\* str(v) as an f-string renders it
PyFormat(v) ==
    CASE v.tag = "str" -> v.s
      [] v.tag = "int" -> ToString(v.n)
      [] v.tag = "None" -> "None"
      [] OTHER -> "<object>"

EmptyDict == <<>>

(***************************************************************************)
(* TestStatus and TestResult.                                              *)
(***************************************************************************)
PENDING == "pending"

RUNNING == "running"

PASSED == "passed"

FAILED == "failed"

SKIPPED == "skipped"

ERROR == "error"

TestStatus == {PENDING, RUNNING, PASSED, FAILED, SKIPPED, ERROR}

\* TestResult(...) with __post_init__: the timestamp is read from the clock
\* at construction, details defaults to {}.
TestResult(name, status, duration, message, details, ts) ==
    [name |-> name, status |-> status, duration |-> duration,
     message |-> message, details |-> details, timestamp |-> ts]

\* an exception that leaves the callee
Raise(exc) == [exc |-> exc]

IsRaise(o) == "exc" \in DOMAIN o

Msg(fmt, args) == [fmt |-> fmt, args |-> args]

(***************************************************************************)
(* Strings whose characters matter (suffixes, lower-casing, substrings)    *)
(* are spelled out; every other string is atomic.                          *)
(***************************************************************************)
Spell ==
    [s \in {"", "png", ".png", "PNG", ".PNG", ".jpg", "asset.PNG", "asset.png", "notes",
            "h264", "H264", "hevc", "unknown", "version", "name", "a", "v", "aac"} |->
        CASE s = "" -> <<>>
          [] s = "png" -> <<"p", "n", "g">>
          [] s = ".png" -> <<".", "p", "n", "g">>
          [] s = "PNG" -> <<"P", "N", "G">>
          [] s = ".PNG" -> <<".", "P", "N", "G">>
          [] s = ".jpg" -> <<".", "j", "p", "g">>
          [] s = "asset.PNG" -> <<"a", "s", "s", "e", "t", ".", "P", "N", "G">>
          [] s = "asset.png" -> <<"a", "s", "s", "e", "t", ".", "p", "n", "g">>
          [] s = "notes" -> <<"n", "o", "t", "e", "s">>
          [] s = "h264" -> <<"h", "2", "6", "4">>
          [] s = "H264" -> <<"H", "2", "6", "4">>
          [] s = "hevc" -> <<"h", "e", "v", "c">>
          [] s = "unknown" -> <<"u", "n", "k", "n", "o", "w", "n">>
          [] s = "version" -> <<"v", "e", "r", "s", "i", "o", "n">>
          [] s = "name" -> <<"n", "a", "m", "e">>
          [] s = "a" -> <<"a">>
          [] s = "v" -> <<"v">>
          [] s = "aac" -> <<"a", "a", "c">>]

Unspell(cs) == CHOOSE s \in DOMAIN Spell : Spell[s] = cs

LowerChar(c) ==
    CASE c = "P" -> "p"
      [] c = "N" -> "n"
      [] c = "G" -> "g"
      [] c = "H" -> "h"
      [] OTHER -> c

\* str.lower()
Lower(cs) == [i \in 1..Len(cs) |-> LowerChar(cs[i])]

\* str.startswith('.')
StartsWithDot(cs) == Len(cs) > 0 /\ cs[1] = "."

\* PurePath.suffix of a one-component path: the text from the last dot on,
\* empty when there is no dot, when the name starts with its only dot or
\* ends with a dot.
Suffix(cs) ==
    LET dots == {i \in 1..Len(cs) : cs[i] = "."}
    IN  IF dots = {} THEN <<>>
        ELSE LET i == CHOOSE d \in dots : \A e \in dots : e <= d
             IN  IF i = 1 \/ i = Len(cs) THEN <<>> ELSE SubSeq(cs, i, Len(cs))

\* a in b, for strings
IsSubstring(a, b) ==
    \E k \in 0..(Len(b) - Len(a)) : \A i \in 1..Len(a) : b[k + i] = a[i]

(***************************************************************************)
(* Validators.  args is the keyword dictionary after Python has bound the  *)
(* defaults; env is what the file system or the probe answers; c holds the *)
(* clock readings of the call: c.t0 at entry, c.t1 when the duration is    *)
(* taken, c.ts when the TestResult is constructed.  A validator yields a   *)
(* TestResult or Raise(exception).                                         *)
(***************************************************************************)
validate_file_exists(args, env, c) ==
    IF ~IsStr(args.path) THEN Raise("TypeError")
    ELSE TestResult(PyStr("File Exists Check"),
                    IF env.exists THEN PASSED ELSE FAILED,
                    c.t1 - c.t0,
                    Msg(IF env.exists THEN "File found: {}" ELSE "File not found: {}",
                        <<PyFormat(args.path)>>),
                    [path |-> args.path, exists |-> env.exists],
                    c.ts)

\* the expectation lower-cased, no dot added
NormalizeExt_NoDot(cs) == Lower(cs)

\* expected_ext.lower() if expected_ext.startswith('.') else f".{expected_ext.lower()}"
NormalizeExt(cs) == IF StartsWithDot(cs) THEN Lower(cs) ELSE <<".">> \o Lower(cs)

validate_file_format(args, env, c) ==
    IF ~IsStr(args.path) THEN Raise("TypeError")
    ELSE IF ~IsStr(args.expected_ext) THEN Raise("AttributeError")
    ELSE LET actual_ext == Lower(Suffix(Spell[args.path.s]))
             expected_ext == NormalizeExt(Spell[args.expected_ext.s])
             matches == actual_ext = expected_ext
         IN  TestResult(PyStr("File Format Check"),
                        IF matches THEN PASSED ELSE FAILED,
                        c.t1 - c.t0,
                        Msg("Expected {}, got {}", <<Unspell(expected_ext), Unspell(actual_ext)>>),
                        [expected |-> PyStr(Unspell(expected_ext)),
                         actual |-> PyStr(Unspell(actual_ext))],
                        c.ts)

\* the except branches: TestResult(status=ERROR, duration=time.time() - start, message=str(e))
ErrorResult(name, c, text) ==
    TestResult(PyStr(name), ERROR, c.t1 - c.t0, Msg(text, <<>>), EmptyDict, c.ts)

\* `not max_bytes or size <= max_bytes`: a max_bytes of 0 taken as no limit
validate_file_size_Falsy(args, env, c) ==
    LET name == "File Size Check"
        min_bytes == args.min_bytes
        max_bytes == args.max_bytes
    IN  IF ~IsStr(args.path) THEN ErrorResult(name, c, "TypeError")
        ELSE IF env.stat # "ok" THEN ErrorResult(name, c, "OSError")
        ELSE IF ~IsInt(min_bytes) THEN ErrorResult(name, c, "TypeError")
        ELSE IF env.size >= min_bytes.n /\ max_bytes # None /\ ~IsInt(max_bytes)
             THEN ErrorResult(name, c, "TypeError")
        ELSE LET in_range == /\ env.size >= min_bytes.n
                             /\ (max_bytes = None \/ max_bytes.n = 0 \/ env.size <= max_bytes.n)
                 shown == IF max_bytes = None \/ (IsInt(max_bytes) /\ max_bytes.n = 0)
                          THEN "unlimited" ELSE PyFormat(max_bytes)
             IN  TestResult(PyStr(name),
                            IF in_range THEN PASSED ELSE FAILED,
                            c.t1 - c.t0,
                            Msg("Size: {} bytes (min: {}, max: {})",
                                <<ToString(env.size), PyFormat(min_bytes), shown>>),
                            [size |-> PyInt(env.size), min |-> min_bytes, max |-> max_bytes],
                            c.ts)

validate_file_size(args, env, c) ==
    LET name == "File Size Check"
        min_bytes == args.min_bytes
        max_bytes == args.max_bytes
    IN  IF ~IsStr(args.path) THEN ErrorResult(name, c, "TypeError")
        ELSE IF env.stat # "ok" THEN ErrorResult(name, c, "OSError")
        ELSE IF ~IsInt(min_bytes) THEN ErrorResult(name, c, "TypeError")
        ELSE IF env.size >= min_bytes.n /\ max_bytes # None /\ ~IsInt(max_bytes)
             THEN ErrorResult(name, c, "TypeError")
        ELSE LET in_range == /\ env.size >= min_bytes.n
                             /\ (max_bytes = None \/ env.size <= max_bytes.n)
                 \* max_bytes or 'unlimited'
                 shown == IF max_bytes = None \/ (IsInt(max_bytes) /\ max_bytes.n = 0)
                          THEN "unlimited" ELSE PyFormat(max_bytes)
             IN  TestResult(PyStr(name),
                            IF in_range THEN PASSED ELSE FAILED,
                            c.t1 - c.t0,
                            Msg("Size: {} bytes (min: {}, max: {})",
                                <<ToString(env.size), PyFormat(min_bytes), shown>>),
                            [size |-> PyInt(env.size), min |-> min_bytes, max |-> max_bytes],
                            c.ts)

\* the elements a for loop over v visits; iterating a str yields its characters
Iterable(v) == v.tag \in {"list", "str"}

Items(v) ==
    IF v.tag = "list" THEN v.xs
    ELSE [i \in 1..Len(Spell[v.s]) |-> PyStr(Unspell(<<Spell[v.s][i]>>))]

\* "key in data" raises TypeError exactly when this is false
InDefined(key, data) ==
    \/ data.kind \in {"dict", "list"}
    \/ data.kind = "str" /\ IsStr(key)

\* key in data: a key of a dict, an element of a list, a substring of a str
In(key, data) ==
    CASE data.kind = "dict" -> key \in data.keys
      [] data.kind = "list" -> key \in data.items
      [] data.kind = "str" -> IsSubstring(Spell[key.s], Spell[data.s])
      [] OTHER -> FALSE

\* the missing keys collected last first
RECURSIVE MissingKeys_Reversed(_, _)
MissingKeys_Reversed(keys, data) ==
    IF keys = <<>> THEN <<>>
    ELSE MissingKeys_Reversed(Tail(keys), data) \o
         (IF In(Head(keys), data) THEN <<>> ELSE <<Head(keys)>>)

\* [key for key in required_keys if key not in data]
RECURSIVE MissingKeys(_, _)
MissingKeys(keys, data) ==
    IF keys = <<>> THEN <<>>
    ELSE (IF In(Head(keys), data) THEN <<>> ELSE <<Head(keys)>>) \o MissingKeys(Tail(keys), data)

validate_json_schema(args, env, c) ==
    LET name == "JSON Schema Check"
        required_keys == args.required_keys
    IN  IF ~IsStr(args.path) THEN ErrorResult(name, c, "OSError")
        ELSE IF env.file = "unreadable" THEN ErrorResult(name, c, "OSError")
        ELSE IF env.file = "invalid" THEN ErrorResult(name, c, "Invalid JSON: {}")
        ELSE IF ~Iterable(required_keys) THEN ErrorResult(name, c, "TypeError")
        ELSE IF \E i \in 1..Len(Items(required_keys)) :
                    ~InDefined(Items(required_keys)[i], env.data)
             THEN ErrorResult(name, c, "TypeError")
        ELSE LET missing == MissingKeys(Items(required_keys), env.data)
                 passed == Len(missing) = 0
             IN  TestResult(PyStr(name),
                            IF passed THEN PASSED ELSE FAILED,
                            c.t1 - c.t0,
                            IF missing # <<>>
                            THEN Msg("Missing keys: {}", <<missing>>)
                            ELSE Msg("All required keys present", <<>>),
                            [required |-> required_keys, missing |-> PyList(missing)],
                            c.ts)

\* f.read(4096)
ChunkSize == 4096

\* hashlib.new(algorithm) accepts these names
SupportedAlgorithms == {"md5", "sha1", "sha256"}

\* a single f.read(n) in place of the loop
ReadChunks_Once(content, n) ==
    IF content = <<>> THEN <<>>
    ELSE IF Len(content) <= n THEN <<content>>
    ELSE <<SubSeq(content, 1, n)>>

\* the chunks iter(lambda: f.read(n), b'') yields for a file holding content
RECURSIVE ReadChunks(_, _)
ReadChunks(content, n) ==
    IF content = <<>> THEN <<>>
    ELSE IF Len(content) <= n THEN <<content>>
    ELSE <<SubSeq(content, 1, n)>> \o ReadChunks(SubSeq(content, n + 1, Len(content)), n)

\* hasher.update(chunk) for every chunk in order: the bytes the hasher has seen
RECURSIVE Feed(_, _)
Feed(hasher, chunks) ==
    IF chunks = <<>> THEN hasher ELSE Feed(hasher \o Head(chunks), Tail(chunks))

\* hasher.hexdigest(): the digest is identified by the algorithm and the bytes
\* hashed (no two inputs collide)
HexDigest(algorithm, fed) == PyStr([algorithm |-> algorithm, of |-> fed])

validate_checksum(args, env, c) ==
    LET name == "Checksum Validation"
        algorithm == args.algorithm
    IN  IF ~IsStr(algorithm) THEN ErrorResult(name, c, "TypeError")
        ELSE IF algorithm.s \notin SupportedAlgorithms THEN ErrorResult(name, c, "ValueError")
        ELSE IF ~IsStr(args.path) \/ env.file = "unreadable" THEN ErrorResult(name, c, "OSError")
        ELSE LET actual_hash == HexDigest(algorithm.s, Feed(<<>>, ReadChunks(env.content, ChunkSize)))
                 matches == actual_hash = args.expected_hash
             IN  TestResult(PyStr(name),
                            IF matches THEN PASSED ELSE FAILED,
                            c.t1 - c.t0,
                            Msg(IF matches THEN "Hash matches" ELSE "Hash mismatch", <<>>),
                            [expected |-> args.expected_hash, actual |-> actual_hash,
                             algorithm |-> algorithm],
                            c.ts)

\* subprocess timeout of the probe, in seconds
ProbeTimeout == 30

\* the first stream taken, whatever its type
FirstVideo_First(streams, i) == IF i > Len(streams) THEN 0 ELSE i

\* next((s for s in streams if s['codec_type'] == 'video'), None): the index of
\* the first video stream, 0 when there is none, -1 when a stream visited
\* before it has no codec_type (KeyError)
RECURSIVE FirstVideo(_, _)
FirstVideo(streams, i) ==
    IF i > Len(streams) THEN 0
    ELSE IF "codec_type" \notin DOMAIN streams[i] THEN -1
    ELSE IF streams[i].codec_type = PyStr("video") THEN i
    ELSE FirstVideo(streams, i + 1)

\* bool(v)
Truthy(v) ==
    CASE v.tag = "None" -> FALSE
      [] v.tag = "str" -> v.s # ""
      [] v.tag = "int" -> v.n # 0
      [] v.tag = "list" -> v.xs # <<>>
      [] OTHER -> TRUE

\* data.get('streams', [])
Streams(data) == IF "streams" \in DOMAIN data THEN data.streams ELSE <<>>

\* the absent probe binary reported as a failed assertion
validate_video_codec_NoProbeFails(args, env, c) ==
    LET name == "Video Codec Check"
        expected_codec == args.expected_codec
    IN  IF ~IsStr(args.path) THEN ErrorResult(name, c, "TypeError")
        ELSE IF env.probe = "absent"
             THEN TestResult(PyStr(name), FAILED, c.t1 - c.t0,
                             Msg("ffprobe not found - skipping codec check", <<>>), EmptyDict, c.ts)
        ELSE IF env.probe = "timeout" THEN ErrorResult(name, c, "ffprobe timed out")
        ELSE IF env.returncode # 0
             THEN ErrorResult(name, c, "ffprobe failed - is FFmpeg installed?")
        ELSE IF env.stdout = "invalid" THEN ErrorResult(name, c, "JSONDecodeError")
        ELSE IF env.data.kind # "dict" THEN ErrorResult(name, c, "AttributeError")
        ELSE LET v == FirstVideo(Streams(env.data), 1)
             IN  IF v = -1 THEN ErrorResult(name, c, "KeyError")
                 ELSE IF v = 0
                      THEN TestResult(PyStr(name), FAILED, c.t1 - c.t0,
                                      Msg("No video stream found", <<>>), EmptyDict, c.ts)
                 ELSE LET codec == Get(Streams(env.data)[v], "codec_name", PyStr("unknown"))
                      IN  IF Truthy(expected_codec)
                          THEN IF ~IsStr(expected_codec) THEN ErrorResult(name, c, "AttributeError")
                               ELSE LET matches == Lower(Spell[codec.s]) = Lower(Spell[expected_codec.s])
                                    IN  TestResult(PyStr(name),
                                                   IF matches THEN PASSED ELSE FAILED,
                                                   c.t1 - c.t0,
                                                   Msg("Codec: {} (expected: {})",
                                                       <<PyFormat(codec), PyFormat(expected_codec)>>),
                                                   [codec |-> codec, expected |-> expected_codec],
                                                   c.ts)
                          ELSE TestResult(PyStr(name), PASSED, c.t1 - c.t0,
                                          Msg("Codec detected: {}", <<PyFormat(codec)>>),
                                          [codec |-> codec], c.ts)

validate_video_codec(args, env, c) ==
    LET name == "Video Codec Check"
        expected_codec == args.expected_codec
    IN  IF ~IsStr(args.path) THEN ErrorResult(name, c, "TypeError")
        ELSE IF env.probe = "absent"
             THEN TestResult(PyStr(name), SKIPPED, c.t1 - c.t0,
                             Msg("ffprobe not found - skipping codec check", <<>>), EmptyDict, c.ts)
        ELSE IF env.probe = "timeout" THEN ErrorResult(name, c, "ffprobe timed out")
        ELSE IF env.returncode # 0
             THEN ErrorResult(name, c, "ffprobe failed - is FFmpeg installed?")
        ELSE IF env.stdout = "invalid" THEN ErrorResult(name, c, "JSONDecodeError")
        ELSE IF env.data.kind # "dict" THEN ErrorResult(name, c, "AttributeError")
        ELSE LET v == FirstVideo(Streams(env.data), 1)
             IN  IF v = -1 THEN ErrorResult(name, c, "KeyError")
                 ELSE IF v = 0
                      THEN TestResult(PyStr(name), FAILED, c.t1 - c.t0,
                                      Msg("No video stream found", <<>>), EmptyDict, c.ts)
                 ELSE LET codec == Get(Streams(env.data)[v], "codec_name", PyStr("unknown"))
                      IN  IF Truthy(expected_codec)
                          THEN IF ~IsStr(expected_codec) THEN ErrorResult(name, c, "AttributeError")
                               ELSE LET matches == Lower(Spell[codec.s]) = Lower(Spell[expected_codec.s])
                                    IN  TestResult(PyStr(name),
                                                   IF matches THEN PASSED ELSE FAILED,
                                                   c.t1 - c.t0,
                                                   Msg("Codec: {} (expected: {})",
                                                       <<PyFormat(codec), PyFormat(expected_codec)>>),
                                                   [codec |-> codec, expected |-> expected_codec],
                                                   c.ts)
                          ELSE TestResult(PyStr(name), PASSED, c.t1 - c.t0,
                                          Msg("Codec detected: {}", <<PyFormat(codec)>>),
                                          [codec |-> codec], c.ts)

\* one matching dimension taken as enough
validate_resolution_EitherDimension(args, env, c) ==
    LET name == "Resolution Check"
        expected_width == args.expected_width
        expected_height == args.expected_height
    IN  IF ~IsStr(args.path) THEN ErrorResult(name, c, "TypeError")
        ELSE IF env.probe = "absent"
             THEN TestResult(PyStr(name), SKIPPED, c.t1 - c.t0,
                             Msg("ffprobe not found - skipping resolution check", <<>>),
                             EmptyDict, c.ts)
        ELSE IF env.probe = "timeout" THEN ErrorResult(name, c, "TimeoutExpired")
        ELSE IF env.stdout = "invalid" THEN ErrorResult(name, c, "JSONDecodeError")
        ELSE IF env.data.kind # "dict" THEN ErrorResult(name, c, "AttributeError")
        ELSE LET v == FirstVideo(Streams(env.data), 1)
             IN  IF v = -1 THEN ErrorResult(name, c, "KeyError")
                 ELSE IF v = 0
                      THEN TestResult(PyStr(name), FAILED, c.t1 - c.t0,
                                      Msg("No video stream found", <<>>), EmptyDict, c.ts)
                 ELSE LET width == Get(Streams(env.data)[v], "width", None)
                          height == Get(Streams(env.data)[v], "height", None)
                          width_ok == expected_width = None \/ width = expected_width
                          height_ok == expected_height = None \/ height = expected_height
                      IN  TestResult(PyStr(name),
                                     IF width_ok \/ height_ok THEN PASSED ELSE FAILED,
                                     c.t1 - c.t0,
                                     Msg("Resolution: {}x{}", <<PyFormat(width), PyFormat(height)>>),
                                     [width |-> width, height |-> height,
                                      expected_width |-> expected_width,
                                      expected_height |-> expected_height],
                                     c.ts)

validate_resolution(args, env, c) ==
    LET name == "Resolution Check"
        expected_width == args.expected_width
        expected_height == args.expected_height
    IN  IF ~IsStr(args.path) THEN ErrorResult(name, c, "TypeError")
        ELSE IF env.probe = "absent"
             THEN TestResult(PyStr(name), SKIPPED, c.t1 - c.t0,
                             Msg("ffprobe not found - skipping resolution check", <<>>),
                             EmptyDict, c.ts)
        ELSE IF env.probe = "timeout" THEN ErrorResult(name, c, "TimeoutExpired")
        ELSE IF env.stdout = "invalid" THEN ErrorResult(name, c, "JSONDecodeError")
        ELSE IF env.data.kind # "dict" THEN ErrorResult(name, c, "AttributeError")
        ELSE LET v == FirstVideo(Streams(env.data), 1)
             IN  IF v = -1 THEN ErrorResult(name, c, "KeyError")
                 ELSE IF v = 0
                      THEN TestResult(PyStr(name), FAILED, c.t1 - c.t0,
                                      Msg("No video stream found", <<>>), EmptyDict, c.ts)
                 ELSE LET width == Get(Streams(env.data)[v], "width", None)
                          height == Get(Streams(env.data)[v], "height", None)
                          width_ok == expected_width = None \/ width = expected_width
                          height_ok == expected_height = None \/ height = expected_height
                      IN  TestResult(PyStr(name),
                                     IF width_ok /\ height_ok THEN PASSED ELSE FAILED,
                                     c.t1 - c.t0,
                                     Msg("Resolution: {}x{}", <<PyFormat(width), PyFormat(height)>>),
                                     [width |-> width, height |-> height,
                                      expected_width |-> expected_width,
                                      expected_height |-> expected_height],
                                     c.ts)

(***************************************************************************)
(* IEEE-754 binary64 arithmetic, as far as get_summary uses it.  A natural *)
(* number is a sequence of bits, least significant first, without leading  *)
(* zeros; a float is [m |-> bits, e |-> k], the value m * 2^k, with m of   *)
(* exactly Precision bits, or m = <<>> for zero.                           *)
(***************************************************************************)
Precision == 53

RECURSIVE NatBits(_)
NatBits(n) == IF n = 0 THEN <<>> ELSE <<n % 2>> \o NatBits(n \div 2)

\* bits * n + carry, for a small n
RECURSIVE MulSmall(_, _, _)
MulSmall(bits, n, carry) ==
    IF bits = <<>> THEN NatBits(carry)
    ELSE LET a == Head(bits) * n + carry
         IN  <<a % 2>> \o MulSmall(Tail(bits), n, a \div 2)

RECURSIVE Strip(_)
Strip(bits) ==
    IF bits = <<>> THEN <<>>
    ELSE IF bits[Len(bits)] = 0 THEN Strip(SubSeq(bits, 1, Len(bits) - 1))
    ELSE bits

\* bits + 1
RECURSIVE Inc(_)
Inc(bits) ==
    IF bits = <<>> THEN <<1>>
    ELSE IF Head(bits) = 0 THEN <<1>> \o Tail(bits)
    ELSE <<0>> \o Inc(Tail(bits))

Zeros(k) == [i \in 1..k |-> 0]

\* bits * 2^k
ShiftLeft(bits, k) == IF bits = <<>> THEN <<>> ELSE Zeros(k) \o bits

\* -1, 0, 1 as a < b, a = b, a > b
RECURSIVE CmpFrom(_, _, _)
CmpFrom(a, b, i) ==
    IF i = 0 THEN 0
    ELSE IF a[i] < b[i] THEN -1
    ELSE IF a[i] > b[i] THEN 1
    ELSE CmpFrom(a, b, i - 1)

Cmp(a, b) ==
    IF Len(a) < Len(b) THEN -1
    ELSE IF Len(a) > Len(b) THEN 1
    ELSE CmpFrom(a, b, Len(a))

\* a - b for a >= b
RECURSIVE SubBits(_, _, _)
SubBits(a, b, borrow) ==
    IF a = <<>> THEN <<>>
    ELSE LET y == (IF b = <<>> THEN 0 ELSE Head(b)) + borrow
             d == Head(a) - y
         IN  <<d % 2>> \o SubBits(Tail(a), IF b = <<>> THEN <<>> ELSE Tail(b),
                                  IF d < 0 THEN 1 ELSE 0)

AbsDiff(a, b) == IF Cmp(a, b) >= 0 THEN Strip(SubBits(a, b, 0)) ELSE Strip(SubBits(b, a, 0))

FloatZero == [m |-> <<>>, e |-> 0]

\* round an exact m * 2^e with more than Precision bits to nearest, ties to
\* even; sticky tells that nonzero bits lie below m
RoundBits(m, e, sticky) ==
    LET drop == Len(m) - Precision
        kept == SubSeq(m, drop + 1, Len(m))
        guard == IF drop >= 1 THEN m[drop] ELSE 0
        rest == sticky \/ \E i \in 1..(drop - 1) : m[i] = 1
        up == guard = 1 /\ (rest \/ kept[1] = 1)
        r == IF up THEN Inc(kept) ELSE kept
    IN  IF Len(r) > Precision
        THEN [m |-> SubSeq(r, 2, Len(r)), e |-> e + drop + 1]
        ELSE [m |-> r, e |-> e + drop]

\* the first k bits of the binary expansion of r / t for 0 <= r < t, appended
\* to acc least significant first, with the remainder left
RECURSIVE FracBits(_, _, _, _)
FracBits(r, t, k, acc) ==
    IF k = 0 THEN [bits |-> acc, rem |-> r]
    ELSE IF 2 * r >= t THEN FracBits(2 * r - t, t, k - 1, <<1>> \o acc)
    ELSE FracBits(2 * r, t, k - 1, <<0>> \o acc)

\* the least s with p * 2^s >= t
RECURSIVE NormShift(_, _)
NormShift(p, t) == IF p >= t THEN 0 ELSE 1 + NormShift(2 * p, t)

RECURSIVE Pow2(_)
Pow2(k) == IF k = 0 THEN 1 ELSE 2 * Pow2(k - 1)

\* p / t for integers p >= 0, t > 0: the correctly rounded quotient
FloatDiv(p, t) ==
    IF p = 0 THEN FloatZero
    ELSE LET s == NormShift(p, t)
             pp == p * Pow2(s)
             ib == NatBits(pp \div t)
             k == Precision + 1 - Len(ib)
             f == FracBits(pp % t, t, k, ib)
         IN  RoundBits(f.bits, 0 - k - s, f.rem # 0)

\* x * n for a float x and an integer n >= 1, correctly rounded
FloatMulInt(x, n) ==
    IF x.m = <<>> THEN FloatZero ELSE RoundBits(MulSmall(x.m, n, 0), x.e, FALSE)

\* the exact values a.m * 2^a.e and b.m * 2^b.e compared: -1, 0, 1
CmpScaled(am, ae, bm, be) ==
    IF ae >= be THEN Cmp(ShiftLeft(am, ae - be), bm) ELSE Cmp(am, ShiftLeft(bm, be - ae))

(***************************************************************************)
(* TestRunner.run_test                                                     *)
(***************************************************************************)
\* the keys of validator_map
RegisteredTypes ==
    {PyStr("file_exists"), PyStr("file_format"), PyStr("file_size"), PyStr("json_schema"),
     PyStr("checksum"), PyStr("video_codec"), PyStr("resolution")}

\* the parameters without a default in each validator's signature
Required(type) ==
    CASE type = "file_exists" -> {"path"}
      [] type = "file_format" -> {"path", "expected_ext"}
      [] type = "file_size" -> {"path"}
      [] type = "json_schema" -> {"path", "required_keys"}
      [] type = "checksum" -> {"path", "expected_hash"}
      [] type = "video_codec" -> {"path"}
      [] type = "resolution" -> {"path"}

\* the parameters with a default, and the default
Defaults(type) ==
    CASE type = "file_size" -> [min_bytes |-> PyInt(0), max_bytes |-> None]
      [] type = "checksum" -> [algorithm |-> PyStr("md5")]
      [] type = "video_codec" -> [expected_codec |-> None]
      [] type = "resolution" -> [expected_width |-> None, expected_height |-> None]
      [] OTHER -> EmptyDict

\* validator(**params) can be called: every required parameter is given and
\* no keyword is unexpected; otherwise the call raises TypeError
Binds(type, params) ==
    /\ Required(type) \subseteq DOMAIN params
    /\ DOMAIN params \subseteq Required(type) \union DOMAIN Defaults(type)

\* the arguments the validator body sees
Bind(type, params) ==
    [k \in Required(type) \union DOMAIN Defaults(type) |->
        IF k \in DOMAIN params THEN params[k] ELSE Defaults(type)[k]]

Validate(type, args, env, c) ==
    CASE type = "file_exists" -> validate_file_exists(args, env, c)
      [] type = "file_format" -> validate_file_format(args, env, c)
      [] type = "file_size" -> validate_file_size(args, env, c)
      [] type = "json_schema" -> validate_json_schema(args, env, c)
      [] type = "checksum" -> validate_checksum(args, env, c)
      [] type = "video_codec" -> validate_video_codec(args, env, c)
      [] type = "resolution" -> validate_resolution(args, env, c)

\* validator_map[test_type] in place of validator_map.get(test_type)
run_test_KeyError(test_config, env, c) ==
    LET test_type == Get(test_config, "type", None)
        params == Get(test_config, "params", EmptyDict)
    IN  IF test_type \notin RegisteredTypes THEN Raise("KeyError")
        ELSE IF ~Binds(test_type.s, params) THEN Raise("TypeError")
        ELSE Validate(test_type.s, Bind(test_type.s, params), env, c)

run_test(test_config, env, c) ==
    LET test_type == Get(test_config, "type", None)
        params == Get(test_config, "params", EmptyDict)
    IN  IF test_type \notin RegisteredTypes
        THEN TestResult(Get(test_config, "name", PyStr("Unknown")), ERROR, 0,
                        Msg("Unknown test type: {}", <<PyFormat(test_type)>>), EmptyDict, c.ts)
        ELSE IF ~Binds(test_type.s, params) THEN Raise("TypeError")
        ELSE Validate(test_type.s, Bind(test_type.s, params), env, c)

(***************************************************************************)
(* TestRunner.get_summary                                                  *)
(***************************************************************************)
\* a count that misses the last result
RECURSIVE CountStatus_Short(_, _)
CountStatus_Short(rs, status) ==
    IF Len(rs) <= 1 THEN 0
    ELSE (IF Head(rs).status = status THEN 1 ELSE 0) + CountStatus_Short(Tail(rs), status)

\* sum(1 for r in rs if r.status == status)
RECURSIVE CountStatus(_, _)
CountStatus(rs, status) ==
    IF rs = <<>> THEN 0
    ELSE (IF Head(rs).status = status THEN 1 ELSE 0) + CountStatus(Tail(rs), status)

\* the fraction in place of the percentage
SuccessRate_Fraction(passed, n) ==
    IF n # 0 THEN FloatDiv(passed, n) ELSE FloatZero

SuccessRate(passed, n) ==
    IF n # 0 THEN FloatMulInt(FloatDiv(passed, n), 100) ELSE FloatZero

get_summary(rs, start, end) ==
    [total |-> Len(rs),
     passed |-> CountStatus(rs, PASSED),
     failed |-> CountStatus(rs, FAILED),
     errors |-> CountStatus(rs, ERROR),
     skipped |-> CountStatus(rs, SKIPPED),
     duration |-> end - start,
     success_rate |-> SuccessRate(CountStatus(rs, PASSED), Len(rs))]

(***************************************************************************)
(* The suites and the environments the runner is driven with.              *)
(***************************************************************************)
MaxSize == 1

AssetPath == PyStr("asset.PNG")

Named(name, type, params) == [name |-> PyStr(name), type |-> PyStr(type), params |-> params]

Catalogue ==
    { Named("A", "file_exists", [path |-> AssetPath]),
      \* no name: run_suite names it 'Test i'
      [type |-> PyStr("file_exists"), params |-> [path |-> AssetPath]],
      \* no params: the required path is missing
      [name |-> PyStr("B"), type |-> PyStr("file_exists")],
      \* an unexpected keyword
      Named("B", "file_exists", [path |-> AssetPath, mode |-> PyStr("a")]),
      Named("A", "file_format", [path |-> AssetPath, expected_ext |-> PyStr("png")]),
      \* a wrongly typed expected_ext
      Named("B", "file_format", [path |-> AssetPath, expected_ext |-> PyInt(5)]),
      Named("A", "file_size", [path |-> AssetPath, min_bytes |-> PyInt(1)]),
      \* a wrongly typed path
      Named("B", "file_size", [path |-> PyInt(5)]),
      Named("A", "json_schema",
            [path |-> AssetPath, required_keys |-> PyList(<<PyStr("version"), PyStr("name")>>)]),
      Named("A", "checksum",
            [path |-> AssetPath, expected_hash |-> HexDigest("md5", <<1>>)]),
      Named("A", "video_codec", [path |-> AssetPath, expected_codec |-> PyStr("H264")]),
      Named("A", "resolution", [path |-> AssetPath, expected_width |-> PyInt(1)]),
      Named("A", "nonexistent", [path |-> AssetPath]),
      \* an unknown type and no name
      [type |-> PyStr("nonexistent")],
      \* no type
      [name |-> PyStr("A")] }

NoEnv == [nil |-> TRUE]

VideoStream(codec, width) ==
    [codec_type |-> PyStr("video"), codec_name |-> PyStr(codec), width |-> PyInt(width),
     height |-> PyInt(1)]

ProbeEnvs ==
    { [probe |-> "absent"],
      [probe |-> "timeout"],
      [probe |-> "exit", returncode |-> 1, stdout |-> "invalid"],
      [probe |-> "exit", returncode |-> 0, stdout |-> "json", data |-> [kind |-> "dict"]],
      [probe |-> "exit", returncode |-> 0, stdout |-> "json",
       data |-> [kind |-> "dict", streams |-> <<VideoStream("h264", 1)>>]] }

\* what the file system and the probe may answer a validator of this type
RunnerEnvs(type) ==
    CASE type = PyStr("file_exists") -> {[exists |-> b] : b \in BOOLEAN}
      [] type = PyStr("file_size") ->
            {[stat |-> "error"]} \union {[stat |-> "ok", size |-> n] : n \in 0..MaxSize}
      [] type = PyStr("json_schema") ->
            { [file |-> "unreadable"], [file |-> "invalid"],
              [file |-> "json", data |-> [kind |-> "dict", keys |-> {PyStr("name")}]],
              [file |-> "json",
               data |-> [kind |-> "dict", keys |-> {PyStr("name"), PyStr("version")}]] }
      [] type = PyStr("checksum") ->
            {[file |-> "unreadable"]} \union
            {[file |-> "ok", content |-> <<b>>] : b \in 1..2}
      [] type = PyStr("video_codec") -> ProbeEnvs
      [] type = PyStr("resolution") -> ProbeEnvs
      [] OTHER -> {NoEnv}

\* the clock readings of one dispatch, drawn from T: a registered validator
\* reads the clock at entry, for the duration and for the timestamp; the
\* unknown-type result only for the timestamp
Clocks(test_config, T) ==
    IF Get(test_config, "type", None) \in RegisteredTypes
    THEN [t0 : T, t1 : T, ts : T]
    ELSE {[t0 |-> t, t1 |-> t, ts |-> t] : t \in T}

(***************************************************************************)
(* TestRunner: __init__, run_suite, get_summary.                           *)
(* pc is "idle" after construction, "running" inside run_suite,            *)
(* "completed" once run_suite has returned and "aborted" once an exception *)
(* has left it.  total is len(suite.tests) of the suite of the latest      *)
(* run_suite call and tests the declarations of it the loop has reached so *)
(* far (the suite is never mutated, so its declarations are drawn as the   *)
(* loop reaches them).                                                     *)
(* returned is the TestResult as run_test returned it in the               *)
(* latest iteration; summary is what the latest get_summary call since the *)
(* latest run_suite returned.  now is the latest clock reading, monotonic  *)
(* tells that no reading of the current run was below the one before it,   *)
(* runs counts the run_suite calls.  call is the latest direct call of a   *)
(* validator (its arguments, what the environment answered and the result) *)
(* and report the latest call of a ReportGenerator method.                 *)
(***************************************************************************)
Init ==
    /\ pc = "idle"
    /\ total = 0
    /\ tests = <<>>
    /\ results = <<>>
    /\ start_time = 0
    /\ end_time = 0
    /\ now = 0
    /\ monotonic = TRUE
    /\ returned = None
    /\ summary = None
    /\ runs = 0
    /\ call = None
    /\ report = None

\* the position counted from 0
TestName_ZeroBased(test_config, i) == Get(test_config, "name", PyStr("Test " \o ToString(i - 1)))

\* test_config.get('name', f'Test {i}')
TestName(test_config, i) == Get(test_config, "name", PyStr("Test " \o ToString(i)))

\* the runner adding its own overhead to the duration
Store_Timed(result, test_name) ==
    [result EXCEPT !.name = test_name, !.duration = result.duration + 1]

\* result.name = test_name
Store(result, test_name) == [result EXCEPT !.name = test_name]

\* results carried over into the next run
ResetResults_Keep(rs) == rs

\* self.results = []
ResetResults(rs) == <<>>

\* run_suite up to the loop, called with a suite of n declarations; the
\* clock answers from T
Enter(n, T) ==
    /\ pc \in {"idle", "completed", "aborted"}
    /\ runs < MaxRuns
    /\ \E t \in T :
        /\ start_time' = t
        /\ now' = t
    /\ pc' = "running"
    /\ total' = n
    /\ tests' = <<>>
    /\ results' = ResetResults(results)
    /\ monotonic' = TRUE
    /\ returned' = None
    /\ summary' = None
    /\ runs' = runs + 1
    /\ UNCHANGED <<end_time, call, report>>

\* one iteration of the loop of run_suite, on a declaration of decls, with
\* the environment answering from E and the clock from T
Step(decls, T) ==
    /\ pc = "running"
    /\ Len(results) < total
    /\ \E test_config \in decls :
        LET i == Len(results) + 1
            test_name == TestName(test_config, i)
        IN  /\ tests' = Append(tests, test_config)
            /\ \E env \in RunnerEnvs(Get(test_config, "type", None)), c \in Clocks(test_config, T) :
                 LET result == run_test(test_config, env, c)
                 IN  IF IsRaise(result)
                     THEN /\ pc' = "aborted"
                          /\ UNCHANGED <<total, results, start_time, end_time, now, monotonic,
                                         returned, summary, runs, call, report>>
                     ELSE /\ returned' = result
                          /\ results' = Append(results, Store(result, test_name))
                          /\ now' = c.ts
                          /\ monotonic' = (monotonic /\ now <= c.t0 /\ c.t0 <= c.t1 /\ c.t1 <= c.ts)
                          /\ UNCHANGED <<pc, total, start_time, end_time, summary, runs, call,
                                         report>>

\* end_time taken over from start_time, the clock read for nothing
Finish_Early(T) ==
    /\ pc = "running"
    /\ Len(results) = total
    /\ \E t \in T :
        /\ end_time' = start_time
        /\ now' = t
        /\ monotonic' = (monotonic /\ now <= t)
    /\ pc' = "completed"
    /\ UNCHANGED <<total, tests, results, start_time, returned, summary, runs, call, report>>

\* run_suite after the loop
Finish(T) ==
    /\ pc = "running"
    /\ Len(results) = total
    /\ \E t \in T :
        /\ end_time' = t
        /\ now' = t
        /\ monotonic' = (monotonic /\ now <= t)
    /\ pc' = "completed"
    /\ UNCHANGED <<total, tests, results, start_time, returned, summary, runs, call, report>>

\* a get_summary call between two runs
Summarize ==
    /\ pc # "running"
    /\ summary' = get_summary(results, start_time, end_time)
    /\ UNCHANGED <<pc, total, tests, results, start_time, end_time, now, monotonic, returned,
                   runs, call, report>>

\* the runner on suites of the whole catalogue
Next ==
    \/ \E n \in 0..MaxTests : Enter(n, Still)
    \/ Step(Catalogue, Still)
    \/ Finish(Still)
    \/ Summarize

Spec == Init /\ [][Next]_vars

\* the runner under a wall clock that advances, stands still or steps back
NextClock ==
    \/ \E n \in 0..MaxTimedTests : Enter(n, Times)
    \/ Step(Catalogue, Times)
    \/ Finish(Times)
    \/ Summarize

SpecClock == Init /\ [][NextClock]_vars

\* the declarations of SpecStore: a named and an unnamed declaration of a
\* registered type, one whose result carries details, one of an unknown type
\* and one whose dispatch raises
StoreCatalogue ==
    { Named("A", "file_exists", [path |-> AssetPath]),
      [type |-> PyStr("file_exists"), params |-> [path |-> AssetPath]],
      Named("A", "file_size", [path |-> AssetPath, min_bytes |-> PyInt(1)]),
      [type |-> PyStr("nonexistent")],
      [name |-> PyStr("B"), type |-> PyStr("file_exists")] }

\* run_suite entered on a runner that has run nothing yet
FirstEnter(n, T) ==
    /\ pc = "idle"
    /\ Enter(n, T)

\* one run_suite call on a fresh runner (cmd_run with a named suite), under
\* the wall clock
NextStore ==
    \/ \E n \in 0..MaxTimedTests : FirstEnter(n, Times)
    \/ Step(StoreCatalogue, Times)
    \/ Finish(Times)
    \/ Summarize

SpecStore == Init /\ [][NextStore]_vars

\* the declarations of SpecSummary: one source of each status
SummaryCatalogue ==
    { Named("A", "file_exists", [path |-> AssetPath]),
      [name |-> PyStr("B"), type |-> PyStr("file_exists")],
      Named("A", "video_codec", [path |-> AssetPath, expected_codec |-> PyStr("H264")]),
      Named("A", "nonexistent", [path |-> AssetPath]) }

\* the runner on longer suites of fewer declarations
NextSummary ==
    \/ \E n \in 0..MaxSummaryTests : Enter(n, Still)
    \/ Step(SummaryCatalogue, Still)
    \/ Finish(Still)
    \/ Summarize

SpecSummary == Init /\ [][NextSummary]_vars

(***************************************************************************)
(* Properties of the runner.                                               *)
(***************************************************************************)
Terminal == {PASSED, FAILED, SKIPPED, ERROR}

TypeOf(test_config) == Get(test_config, "type", None)

\* r is what run_suite stores for the i-th declaration under some answer of
\* the environment and some clock readings from T
OutcomeOf(test_config, i, r, T) ==
    \E env \in RunnerEnvs(TypeOf(test_config)), c \in Clocks(test_config, T) :
        /\ ~IsRaise(run_test(test_config, env, c))
        /\ r = Store(run_test(test_config, env, c), TestName(test_config, i))

\* the message was formatted from text
Contains(message, text) == \E k \in DOMAIN message.args : message.args[k] = text

\* C1: once run_suite has ended on a suite of N declarations, it has returned
\* exactly N results and results[i] is the outcome of tests[i], in order.
C1_NResultsInOrder ==
    pc \in {"completed", "aborted"} =>
        /\ Len(results) = total
        /\ \A i \in 1..total : OutcomeOf(tests[i], i, results[i], Still)

\* C2: every dispatched declaration of a registered type, whatever its
\* params, has produced one result with a terminal status, and no exception
\* has left run_test and run_suite.
C2_NoExceptionEscapes ==
    \A i \in 1..Len(tests) :
        TypeOf(tests[i]) \in RegisteredTypes =>
            /\ pc # "aborted"
            /\ i <= Len(results)
            /\ results[i].status \in Terminal

\* C3: a run in which a declaration has yielded a status ends Completed with
\* every declaration of the suite processed; no outcome aborts the suite.
C3_RunCompletes ==
    (Len(results) >= 1 /\ pc \in {"completed", "aborted"}) =>
        (pc = "completed" /\ Len(results) = total)

\* C4: a declaration whose type is not registered (or missing) has yielded a
\* result with status Error, the declaration's name, duration 0 and a message
\* containing the type, and it has not ended the run: the loop went on.
C4_UnknownTypeIsError ==
    \A i \in 1..Len(tests) :
        TypeOf(tests[i]) \notin RegisteredTypes =>
            /\ i <= Len(results)
            /\ results[i].status = ERROR
            /\ results[i].duration = 0
            /\ Contains(results[i].message, PyFormat(TypeOf(tests[i])))
            /\ ("name" \in DOMAIN tests[i] => results[i].name = tests[i].name)
            /\ (i < total => pc \in {"running", "completed"} \/ Len(tests) > i)

C4_Witness ==
    /\ pc = "completed"
    /\ Len(results) = 2
    /\ TypeOf(tests[1]) = PyStr("nonexistent")
    /\ "type" \notin DOMAIN tests[2]
    /\ results[1].status = ERROR
    /\ results[2].status = ERROR

\* C5: every result held by the runner has a terminal status and a
\* non-negative duration.
C5_TerminalAndNonNegative ==
    \A i \in 1..Len(results) :
        /\ results[i].status \in Terminal
        /\ results[i].duration >= 0

StatusCount(status) == Cardinality({i \in 1..Len(results) : results[i].status = status})

\* C6: what get_summary returned counts, per status, the results the runner
\* holds; total is their number and the sum of the four counts.
C6_SummaryCounts ==
    summary # None =>
        /\ summary.total = Len(results)
        /\ summary.passed = StatusCount(PASSED)
        /\ summary.failed = StatusCount(FAILED)
        /\ summary.errors = StatusCount(ERROR)
        /\ summary.skipped = StatusCount(SKIPPED)
        /\ summary.total = summary.passed + summary.failed + summary.errors + summary.skipped

C6_Witness ==
    /\ summary # None
    /\ Len(results) = 3
    /\ results[1].status = PASSED
    /\ results[2].status = FAILED
    /\ results[3].status = FAILED
    /\ summary.passed = 1
    /\ summary.failed = 2

Hundred == NatBits(100)

\* the float rate is at most 100
AtMostHundred(rate) == CmpScaled(rate.m, rate.e, Hundred, 0) <= 0

\* C7 as claimed: success_rate is 0 when total is 0 and otherwise
\* success_rate * total = passed * 100 exactly, within [0, 100].
C7_RateExact ==
    summary # None =>
        /\ summary.total = 0 => summary.success_rate = FloatZero
        /\ summary.total # 0 =>
              CmpScaled(MulSmall(summary.success_rate.m, summary.total, 0),
                        summary.success_rate.e, NatBits(summary.passed * 100), 0) = 0
        /\ AtMostHundred(summary.success_rate)

\* |rate * n - p * 100| * 2^51 <= p * 100, for a rate whose exponent is below 0
WithinRounding(rate, p, n) ==
    /\ rate.e <= 0
    /\ LET x == MulSmall(rate.m, n, 0)
           y == ShiftLeft(NatBits(p * 100), 0 - rate.e)
       IN  Cmp(ShiftLeft(AbsDiff(x, y), 51), y) <= 0

\* C7 as amended: success_rate is 0 when total is 0 and otherwise equals
\* passed / total * 100 within floating rounding (relative error at most
\* 2^-51), within [0, 100].
C7_RateWithinRounding ==
    summary # None =>
        /\ summary.total = 0 => summary.success_rate = FloatZero
        /\ summary.total # 0 =>
              WithinRounding(summary.success_rate, summary.passed, summary.total)
        /\ AtMostHundred(summary.success_rate)

C7_Witness ==
    /\ summary # None
    /\ summary.total = 3
    /\ summary.passed = 1
    /\ summary.success_rate # FloatZero

\* C8: whenever get_summary is called, the duration it reports is
\* non-negative and is the span from the start to the end of the latest
\* run_suite call.
C8_DurationIsSpan ==
    summary # None =>
        /\ summary.duration >= 0
        /\ summary.duration = end_time - start_time
        /\ runs > 0 => pc = "completed"

\* C9: the runner goes from idle to running to completed; a completed runner
\* holds the results of the declarations of its latest suite only; reading
\* it changes nothing and get_summary keeps returning the same value; a new
\* run_suite call starts from an empty results sequence.
C9_Lifecycle ==
    /\ [](pc = "completed" =>
            /\ Len(results) = total
            /\ Len(tests) = total
            /\ \A i \in 1..total : OutcomeOf(tests[i], i, results[i], Still))
    /\ [][/\ pc = "idle" => pc' \in {"idle", "running"}
          /\ pc' = "completed" => pc \in {"running", "completed"}
          /\ pc = "completed" => pc' \in {"completed", "running"}
          /\ (pc = "completed" /\ pc' = "completed") =>
                /\ UNCHANGED <<total, tests, results, start_time, end_time>>
                /\ get_summary(results', start_time', end_time')
                     = get_summary(results, start_time, end_time)
                /\ summary # None => summary' = summary
          /\ (pc # "running" /\ pc' = "running") => results' = <<>>]_vars

C9_Witness ==
    /\ runs = 2
    /\ pc = "completed"
    /\ total = 1
    /\ Len(results) = 1
    /\ summary # None
    /\ summary.total = 1

\* C10: what run_suite stores for a declaration is the TestResult run_test
\* returned with only the name replaced by the declaration's name: status,
\* duration, message, details and timestamp are the validator's.
C10_OnlyNameReplaced ==
    (Len(results) >= 1 /\ returned # None) =>
        LET k == Len(results)
        IN  /\ results[k].name = TestName(tests[k], k)
            /\ results[k].status = returned.status
            /\ results[k].duration = returned.duration
            /\ results[k].message = returned.message
            /\ results[k].details = returned.details
            /\ results[k].timestamp = returned.timestamp

C10_Witness ==
    /\ Len(results) = 1
    /\ TypeOf(tests[1]) = PyStr("file_exists")
    /\ returned # None
    /\ returned.name = PyStr("File Exists Check")
    /\ results[1].name = PyStr("A")
    /\ results[1].duration = 1

(***************************************************************************)
(* Direct calls of the validators (they are static methods): the keyword   *)
(* arguments and the answer of the environment are drawn, the runner stays *)
(* as constructed.                                                         *)
(***************************************************************************)
\* streams in one answer of the probe
MaxStreams == 2

\* the clock of a direct call
StillClock == [t0 |-> 0, t1 |-> 0, ts |-> 0]

SeqsUpTo(S, n) == UNION {[1..k -> S] : k \in 0..n}

\* validator(**params), called directly: the arguments after binding, the
\* answer of the environment and the result
Called(type, params, env) ==
    [validator |-> type, params |-> params, args |-> Bind(type, params), env |-> env,
     result |-> Validate(type, Bind(type, params), env, StillClock)]

\* one call per behaviour; the runner is left as constructed
RunnerIdle ==
    /\ pc = "idle"
    /\ call = None
    /\ UNCHANGED <<pc, total, tests, results, start_time, end_time, now, monotonic, returned,
                   summary, runs, report>>

\* the entries of the probe's stream list: video streams, one without a
\* codec_name, an audio stream, and a stream of a type the probe cannot name,
\* which it lists without codec_type
StreamKinds ==
    { VideoStream("h264", 1),
      VideoStream("hevc", 1),
      [codec_type |-> PyStr("video"), width |-> PyInt(1), height |-> PyInt(1)],
      [codec_type |-> PyStr("audio"), codec_name |-> PyStr("aac")],
      [index |-> PyInt(0)] }

\* what json.loads(result.stdout) yields for the probe's JSON: an object
\* with or without streams
ProbeData ==
    {[kind |-> "dict"]} \union
    {[kind |-> "dict", streams |-> ss] : ss \in SeqsUpTo(StreamKinds, MaxStreams)}

\* the outcomes of subprocess.run(['ffprobe', ...], timeout=30): the binary
\* is absent, the timeout expires, or the probe exits with a return code
\* and prints text that is not JSON or the JSON of an object
VideoEnvs ==
    {[probe |-> "absent"], [probe |-> "timeout"]} \union
    {[probe |-> "exit", returncode |-> rc, stdout |-> "invalid"] : rc \in {0, 1}} \union
    {[probe |-> "exit", returncode |-> rc, stdout |-> "json", data |-> d] :
        rc \in {0, 1}, d \in ProbeData}

CodecParams ==
    {[path |-> AssetPath]} \union
    {[path |-> AssetPath, expected_codec |-> e] :
        e \in {None, PyStr(""), PyStr("H264"), PyStr("h264"), PyStr("hevc"), PyStr("unknown")}}

CallVideoCodec ==
    /\ RunnerIdle
    /\ \E params \in CodecParams, env \in VideoEnvs : call' = Called("video_codec", params, env)

\* no expectation, one of the two, or both; the streams drawn are 1 x 1
ResolutionParams ==
    {[path |-> AssetPath]} \union
    {[path |-> AssetPath, expected_width |-> PyInt(w)] : w \in 1..2} \union
    {[path |-> AssetPath, expected_height |-> PyInt(h)] : h \in 1..2} \union
    {[path |-> AssetPath, expected_width |-> PyInt(w), expected_height |-> PyInt(h)] :
        w \in 1..2, h \in 1..2}

CallResolution ==
    /\ RunnerIdle
    /\ \E params \in ResolutionParams, env \in VideoEnvs : call' = Called("resolution", params, env)

\* keys in required_keys
MaxKeys == 2

SchemaParams ==
    {[path |-> AssetPath, required_keys |-> PyList(ks)] :
        ks \in SeqsUpTo({PyStr("version"), PyStr("name")}, MaxKeys)}

\* what open(path) and json.load answer: the file cannot be read, its text
\* is rejected by the decoder, or it decodes to an object, an array, a
\* string or a number
SchemaEnvs ==
    {[file |-> "unreadable"], [file |-> "invalid"]} \union
    {[file |-> "json", data |-> [kind |-> "dict", keys |-> ks]] :
        ks \in SUBSET {PyStr("version"), PyStr("name"), PyStr("a")}} \union
    {[file |-> "json", data |-> [kind |-> "list", items |-> ks]] :
        ks \in SUBSET {PyStr("version"), PyStr("name")}} \union
    {[file |-> "json", data |-> [kind |-> "str", s |-> t]] : t \in {"version", "notes"}} \union
    {[file |-> "json", data |-> [kind |-> "int", n |-> 5]]}

CallJsonSchema ==
    /\ RunnerIdle
    /\ \E params \in SchemaParams, env \in SchemaEnvs : call' = Called("json_schema", params, env)

SizeParams ==
    {[path |-> AssetPath]} \union
    {[path |-> AssetPath, min_bytes |-> PyInt(lo)] : lo \in 0..(MaxSize + 1)} \union
    {[path |-> AssetPath, max_bytes |-> PyInt(hi)] : hi \in 0..MaxSize} \union
    {[path |-> AssetPath, min_bytes |-> PyInt(lo), max_bytes |-> hi] :
        lo \in 0..(MaxSize + 1), hi \in {None} \union {PyInt(n) : n \in 0..MaxSize}}

\* what Path(path).stat() answers: it fails, or the size in bytes
SizeEnvs == {[stat |-> "error"]} \union {[stat |-> "ok", size |-> n] : n \in 0..(MaxSize + 1)}

CallFileSize ==
    /\ RunnerIdle
    /\ \E params \in SizeParams, env \in SizeEnvs : call' = Called("file_size", params, env)

\* full chunks in a file
MaxChunks == 2

\* a file of n bytes; successive chunks of it differ
FileContent(n) == [i \in 1..n |-> i % 251]

\* file lengths around the chunk boundaries
FileLengths == {0, 1} \union UNION {{k * ChunkSize, k * ChunkSize + 1} : k \in 1..MaxChunks}

ChecksumParams ==
    {[path |-> AssetPath, expected_hash |-> HexDigest("md5", FileContent(n))] :
        n \in FileLengths} \union
    {[path |-> AssetPath, expected_hash |-> HexDigest(a, FileContent(n)), algorithm |-> PyStr(b)] :
        n \in {1, ChunkSize + 1}, a \in {"md5", "sha256"}, b \in {"md5", "sha256", "crc32"}}

\* what open(path, 'rb') answers: it fails, or the bytes of the file
ChecksumEnvs ==
    {[file |-> "unreadable"]} \union
    {[file |-> "ok", content |-> FileContent(n)] : n \in FileLengths}

CallChecksum ==
    /\ RunnerIdle
    /\ \E params \in ChecksumParams, env \in ChecksumEnvs : call' = Called("checksum", params, env)

FormatParams ==
    {[path |-> PyStr(p), expected_ext |-> PyStr(e)] :
        p \in {"asset.PNG", "asset.png", "notes", ".png"},
        e \in {"png", ".png", "PNG", ".PNG", ".jpg"}}

\* validate_file_format does not touch the file system
CallFileFormat ==
    /\ RunnerIdle
    /\ \E params \in FormatParams : call' = Called("file_format", params, NoEnv)

NextValidators ==
    \/ CallVideoCodec
    \/ CallResolution
    \/ CallJsonSchema
    \/ CallFileSize
    \/ CallChecksum
    \/ CallFileFormat

SpecValidators == Init /\ [][NextValidators]_vars

(***************************************************************************)
(* Properties of the validators.                                           *)
(***************************************************************************)
CalledAs(type) == call # None /\ call.validator = type

IsVideo(stream) == "codec_type" \in DOMAIN stream /\ stream.codec_type = PyStr("video")

\* the indices of the video streams of the probe's answer
Videos(env) == {i \in DOMAIN Streams(env.data) : IsVideo(Streams(env.data)[i])}

First(S) == CHOOSE i \in S : \A j \in S : i <= j

\* video_stream.get('codec_name', 'unknown')
CodecOf(stream) == Get(stream, "codec_name", PyStr("unknown"))

SameIgnoringCase(a, b) == Lower(Spell[a.s]) = Lower(Spell[b.s])

\* the probe was run, exited with 0 and printed JSON
Evaluated(env) == env.probe = "exit" /\ env.returncode = 0 /\ env.stdout = "json"

Malformed(env) ==
    LET ss == Streams(env.data)
        last == IF Videos(env) = {} THEN Len(ss) ELSE First(Videos(env))
    IN  \E i \in 1..last : "codec_type" \notin DOMAIN ss[i]

Prevents(env) == env.probe \in {"absent", "timeout"} \/ (env.probe = "exit" /\ ~Evaluated(env))

\* C12: for every probe outcome that prevents evaluation, validate_resolution
\* returns the status validate_video_codec returns for that outcome: Skipped
\* when the binary is absent, Error on timeout, non-zero exit and unparsable
\* output.
C12_ResolutionFollowsCodecRules ==
    (CalledAs("resolution") /\ Prevents(call.env)) =>
        /\ call.result.status = IF call.env.probe = "absent" THEN SKIPPED ELSE ERROR
        /\ call.result.status =
              validate_video_codec(Bind("video_codec", [path |-> call.args.path]), call.env,
                                   StillClock).status

\* the file decoded to a JSON object
DecodedObject(env) == env.file = "json" /\ env.data.kind = "dict"

\* the positions of required_keys whose key the object lacks
Absent(required, env) == {i \in 1..Len(required) : required[i] \notin env.data.keys}

\* the j-th element of a set of numbers, in increasing order
Nth(S, j) == CHOOSE i \in S : Cardinality({k \in S : k < i}) = j - 1

\* C13: validate_json_schema on a valid JSON object lacking some required
\* keys returns Failed with details.missing the absent keys, in required_keys
\* order; on text that is not valid JSON and on an unreadable file it returns
\* Error, never Failed.
C13_MissingKeysOrError ==
    CalledAs("json_schema") =>
        LET env == call.env
            required == call.args.required_keys.xs
        IN  /\ (DecodedObject(env) /\ Absent(required, env) # {}) =>
                  /\ call.result.status = FAILED
                  /\ call.result.details.missing =
                        PyList([j \in 1..Cardinality(Absent(required, env)) |->
                                   required[Nth(Absent(required, env), j)]])
            /\ env.file \in {"invalid", "unreadable"} => call.result.status = ERROR

\* both keys required, only name present: version is reported; and none
\* present: version, name in that order
C13_Witness ==
    /\ CalledAs("json_schema")
    /\ call.args.required_keys = PyList(<<PyStr("version"), PyStr("name")>>)
    /\ DecodedObject(call.env)
    /\ call.env.data.keys = {PyStr("a")}
    /\ call.result.status = FAILED
    /\ call.result.details.missing = PyList(<<PyStr("version"), PyStr("name")>>)

\* C14: validate_json_schema returns Passed iff the file decodes to a
\* top-level JSON object having every element of required_keys among its
\* keys; a decoded value that is not an object never yields Passed when
\* required_keys is non-empty.
C14_PassedIffObjectHasKeys ==
    CalledAs("json_schema") =>
        LET env == call.env
            required == call.args.required_keys.xs
            passed == call.result.status = PASSED
        IN  /\ DecodedObject(env) => (passed <=> Absent(required, env) = {})
            /\ env.file # "json" => ~passed
            /\ (env.file = "json" /\ env.data.kind # "dict" /\ required # <<>>) => ~passed

\* C15: validate_file_size returns Passed iff min_bytes <= size and max_bytes
\* is absent or size <= max_bytes, both ends included (also for a max_bytes
\* of 0), Failed otherwise; when the size cannot be read it returns Error.
C15_SizeInRangeInclusive ==
    CalledAs("file_size") =>
        LET lo == call.args.min_bytes.n
            hi == call.args.max_bytes
        IN  IF call.env.stat # "ok" THEN call.result.status = ERROR
            ELSE call.result.status =
                    IF lo <= call.env.size /\ (hi = None \/ call.env.size <= hi.n)
                    THEN PASSED ELSE FAILED

\* a file one byte over a max_bytes of 0
C15_Witness ==
    /\ CalledAs("file_size")
    /\ call.env = [stat |-> "ok", size |-> 1]
    /\ call.args.min_bytes = PyInt(0)
    /\ call.args.max_bytes = PyInt(0)
    /\ call.result.status = FAILED

\* C16: validate_checksum feeds the whole file, chunk after chunk in order,
\* to the hasher: it returns Passed iff the digest of the whole content
\* equals expected_hash, on a mismatch Failed with expected and actual in
\* details; an unreadable file or an unsupported algorithm gives Error.
C16_DigestOfWholeContent ==
    CalledAs("checksum") =>
        LET algorithm == call.args.algorithm.s
            expected == call.args.expected_hash
        IN  IF algorithm \notin SupportedAlgorithms \/ call.env.file = "unreadable"
            THEN call.result.status = ERROR
            ELSE LET digest == HexDigest(algorithm, call.env.content)
                 IN  IF digest = expected THEN call.result.status = PASSED
                     ELSE /\ call.result.status = FAILED
                          /\ call.result.details.expected = expected
                          /\ call.result.details.actual = digest

\* a file of two full chunks and one byte, whose digest is the expected one
C16_Witness ==
    /\ CalledAs("checksum")
    /\ call.env.file = "ok"
    /\ Len(call.env.content) = 2 * ChunkSize + 1
    /\ Len(ReadChunks(call.env.content, ChunkSize)) = 3
    /\ call.result.status = PASSED

\* an extension without its leading dot
WithoutDot(cs) == IF StartsWithDot(cs) THEN Tail(cs) ELSE cs

\* C17: validate_file_format returns Passed iff the lower-cased suffix of
\* path is a dot followed by the lower-cased expected_ext (its own leading
\* dot aside), so that 'PNG', '.png' and 'png' expect the same; otherwise
\* Failed.
C17_ExtensionIgnoringCaseAndDot ==
    CalledAs("file_format") =>
        LET suffix == Lower(Suffix(Spell[call.args.path.s]))
            expected == Spell[call.args.expected_ext.s]
        IN  /\ call.result.status =
                  IF suffix = <<".">> \o Lower(WithoutDot(expected)) THEN PASSED ELSE FAILED
            /\ call.args.expected_ext.s \in {"PNG", ".png", "png"} =>
                  (call.result.status = PASSED <=> suffix = Spell[".png"])

\* an upper-case suffix against a lower-case expectation without dot
C17_Witness ==
    /\ CalledAs("file_format")
    /\ call.args.path = PyStr("asset.PNG")
    /\ call.args.expected_ext = PyStr("png")
    /\ call.result.status = PASSED

(***************************************************************************)
(* ReportGenerator.to_json.  The text json.dumps emits is a sequence of    *)
(* tokens (indentation left out); json.loads, which reads it back, is a    *)
(* parser of such sequences.                                               *)
(***************************************************************************)
PyDict(d) == [tag |-> "dict", d |-> d]

PyBool(b) == [tag |-> "bool", b |-> b]

PyFloat(x) == [tag |-> "float", x |-> x]

\* the insertion order of the keys of the dictionaries to_json serializes
KeyOrder ==
    <<"generated", "summary", "results",
      "name", "status", "total", "passed", "failed", "errors", "skipped", "duration",
      "success_rate", "message", "details", "timestamp",
      "path", "exists", "codec", "expected", "actual", "algorithm", "size", "min", "max",
      "required", "missing", "width", "height", "expected_width", "expected_height">>

KeysInOrder(S) == SelectSeq(KeyOrder, LAMBDA k : k \in S)

Tok(t) == [t |-> t]

\* json.dumps(value)
RECURSIVE Dumps(_), DumpMembers(_, _), DumpElements(_)
Dumps(v) ==
    CASE v.tag = "dict" -> <<Tok("{")>> \o DumpMembers(v.d, KeysInOrder(DOMAIN v.d)) \o <<Tok("}")>>
      [] v.tag = "list" -> <<Tok("[")>> \o DumpElements(v.xs) \o <<Tok("]")>>
      [] v.tag = "str" -> <<[t |-> "string", s |-> v.s]>>
      [] v.tag = "int" -> <<[t |-> "number", float |-> FALSE, x |-> v.n]>>
      [] v.tag = "float" -> <<[t |-> "number", float |-> TRUE, x |-> v.x]>>
      [] v.tag = "bool" -> <<Tok(IF v.b THEN "true" ELSE "false")>>
      [] v.tag = "None" -> <<Tok("null")>>

DumpMembers(d, keys) ==
    IF keys = <<>> THEN <<>>
    ELSE <<[t |-> "string", s |-> Head(keys)], Tok(":")>> \o Dumps(d[Head(keys)]) \o
         (IF Len(keys) > 1 THEN <<Tok(",")>> ELSE <<>>) \o DumpMembers(d, Tail(keys))

DumpElements(xs) ==
    IF xs = <<>> THEN <<>>
    ELSE Dumps(Head(xs)) \o (IF Len(xs) > 1 THEN <<Tok(",")>> ELSE <<>>) \o DumpElements(Tail(xs))

\* the value of a scalar token
Scalar(tok) ==
    CASE tok.t = "string" -> PyStr(tok.s)
      [] tok.t = "number" -> IF tok.float THEN PyFloat(tok.x) ELSE PyInt(tok.x)
      [] tok.t = "true" -> PyBool(TRUE)
      [] tok.t = "false" -> PyBool(FALSE)
      [] tok.t = "null" -> None

\* d[key] = v
Assign(d, key, v) == [k \in DOMAIN d \union {key} |-> IF k = key THEN v ELSE d[k]]

\* a complete value added to the innermost open container
Put(stack, v) ==
    LET top == stack[Len(stack)]
    IN  [stack EXCEPT ![Len(stack)] =
            IF top.kind = "dict" THEN [top EXCEPT !.d = Assign(top.d, top.key, v)]
            ELSE [top EXCEPT !.xs = Append(top.xs, v)]]

\* json.loads(text): the tokens from the i-th on are read with the open
\* objects and arrays on the stack
RECURSIVE Parse(_, _, _)
Parse(ts, i, stack) ==
    CASE ts[i].t \in {"{", "["} ->
            Parse(ts, i + 1,
                  Append(stack, [kind |-> IF ts[i].t = "{" THEN "dict" ELSE "list",
                                 d |-> <<>>, xs |-> <<>>, key |-> ""]))
      [] ts[i].t \in {"}", "]"} ->
            IF Len(stack) = 1
            THEN (IF stack[1].kind = "dict" THEN PyDict(stack[1].d) ELSE PyList(stack[1].xs))
            ELSE Parse(ts, i + 1,
                       Put(SubSeq(stack, 1, Len(stack) - 1),
                           IF stack[Len(stack)].kind = "dict"
                           THEN PyDict(stack[Len(stack)].d)
                           ELSE PyList(stack[Len(stack)].xs)))
      [] ts[i].t = "," -> Parse(ts, i + 1, stack)
      [] ts[i].t = "string" /\ i < Len(ts) /\ ts[i + 1].t = ":" ->
            Parse(ts, i + 2, [stack EXCEPT ![Len(stack)].key = ts[i].s])
      [] OTHER ->
            IF stack = <<>> THEN Scalar(ts[i]) ELSE Parse(ts, i + 1, Put(stack, Scalar(ts[i])))

Loads(text) == Parse(text, 1, <<>>)

\* a details dictionary as json.dumps sees it
DetailsDict(details) ==
    PyDict([k \in DOMAIN details |-> IF k = "exists" THEN PyBool(details[k]) ELSE details[k]])

\* the summary dictionary as json.dumps sees it
SummaryDict(sm) ==
    PyDict([total |-> PyInt(sm.total), passed |-> PyInt(sm.passed), failed |-> PyInt(sm.failed),
            errors |-> PyInt(sm.errors), skipped |-> PyInt(sm.skipped),
            duration |-> PyFloat(sm.duration), success_rate |-> PyFloat(sm.success_rate)])

\* the entry of one TestResult
ResultEntry(r) ==
    PyDict([name |-> r.name, status |-> PyStr(r.status), duration |-> PyFloat(r.duration),
            message |-> PyStr(r.message), details |-> DetailsDict(r.details),
            timestamp |-> PyStr(r.timestamp)])

\* the entries in reverse order
ResultEntries_Reversed(rs) == [i \in 1..Len(rs) |-> ResultEntry(rs[Len(rs) + 1 - i])]

\* [{...} for r in results]
ResultEntries(rs) == [i \in 1..Len(rs) |-> ResultEntry(rs[i])]

\* to_json up to json.dumps: the text of the report
to_json(rs, sm, generated) ==
    Dumps(PyDict([generated |-> PyStr(generated), summary |-> SummaryDict(sm),
                  results |-> PyList(ResultEntries(rs))]))

(***************************************************************************)
(* ReportGenerator.to_html.  The document is its stat cards and its table  *)
(* rows; a formatted number is the format and the number.                  *)
(***************************************************************************)
\* status_colors.get(r.status.value, "#888")
StatusColor(status) ==
    CASE status = PASSED -> "#27ca40"
      [] status = FAILED -> "#ff5f56"
      [] status = ERROR -> "#ff5f56"
      [] status = SKIPPED -> "#ffbd2e"
      [] OTHER -> "#888"

\* r.status.value.upper()
Upper(status) ==
    CASE status = PASSED -> "PASSED"
      [] status = FAILED -> "FAILED"
      [] status = ERROR -> "ERROR"
      [] status = SKIPPED -> "SKIPPED"
      [] status = PENDING -> "PENDING"
      [] status = RUNNING -> "RUNNING"

\* f"{x:.3f}", f"{x:.1f}"
Formatted(spec, x) == [format |-> spec, of |-> x]

\* one <tr>: the cells and the color of the status cell
HtmlRow(r) ==
    [cells |-> [name |-> r.name, status |-> Upper(r.status),
                duration |-> Formatted(".3f", r.duration), message |-> r.message],
     color |-> StatusColor(r.status)]

\* the stat cards: the label and the summary figure shown
HtmlCards(sm) ==
    <<[label |-> "Total", figure |-> "total", value |-> sm.total],
      [label |-> "Passed", figure |-> "passed", value |-> sm.passed],
      [label |-> "Failed", figure |-> "failed", value |-> sm.failed],
      [label |-> "Success Rate", figure |-> "success_rate",
       value |-> Formatted(".1f", sm.success_rate)]>>

to_html(rs, sm, generated) ==
    [generated |-> generated, cards |-> HtmlCards(sm),
     rows |-> [i \in 1..Len(rs) |-> HtmlRow(rs[i])]]

(***************************************************************************)
(* Saving a report: output_path.parent.mkdir(parents=True, exist_ok=True)  *)
(* and output_path.write_text(text).  The file system is the parent        *)
(* directory (there or not) and the file (absent, or its content); fault   *)
(* tells which system call fails, if any.                                  *)
(***************************************************************************)
\* characters a failing write may have stored
MaxWritten == 1

NoFile == [exists |-> FALSE]

File(content) == [exists |-> TRUE, content |-> content]

\* the file system before the call: no parent directory, no file, or an
\* older report
FileSystems ==
    { [parent |-> FALSE, file |-> NoFile],
      [parent |-> TRUE, file |-> NoFile],
      [parent |-> TRUE, file |-> File("older report")] }

\* mkdir can fail only when it has a directory to create; a write that
\* fails has stored some of the text
Faults(fs, text) ==
    {[at |-> "none"], [at |-> "open"]} \union
    (IF fs.parent THEN {} ELSE {[at |-> "mkdir"]}) \union
    {[at |-> "write", written |-> k] : k \in 0..MaxWritten}

\* the first k characters of a text (every report is longer than that)
Stored(text, k) == [first |-> k, of |-> text]

\* mkdir, then write_text: open(path, 'w') truncates the file, write stores
\* the text; the OSError of the failing call leaves the method
Save(text, fs, fault) ==
    CASE fault.at = "mkdir" -> [fs |-> fs, raised |-> "OSError"]
      [] fault.at = "open" -> [fs |-> [fs EXCEPT !.parent = TRUE], raised |-> "OSError"]
      [] fault.at = "write" ->
            [fs |-> [parent |-> TRUE, file |-> File(Stored(text, fault.written))],
             raised |-> "OSError"]
      [] OTHER -> [fs |-> [parent |-> TRUE, file |-> File(text)], raised |-> "none"]

(***************************************************************************)
(* The runner followed by a report, as cmd_run does: one suite is run on a *)
(* fresh runner, then a ReportGenerator method is called on the runner's   *)
(* results and summary, with or without an output path.                    *)
(***************************************************************************)
\* declarations per suite, under SpecReport
MaxReportTests == 2

\* declarations whose results carry every kind of value: text, numbers,
\* None, booleans, lists, empty details, a name given by the runner
ReportCatalogue ==
    { Named("A", "file_exists", [path |-> AssetPath]),
      Named("B", "file_size", [path |-> AssetPath, min_bytes |-> PyInt(1)]),
      Named("A", "json_schema",
            [path |-> AssetPath, required_keys |-> PyList(<<PyStr("version"), PyStr("name")>>)]),
      [type |-> PyStr("file_format"),
       params |-> [path |-> AssetPath, expected_ext |-> PyStr("png")]],
      [type |-> PyStr("nonexistent")] }

\* what a call of the method leaves: its arguments, the text it built, the
\* file system before and after and the exception that left it, if any
Reports(method, rs, sm, text) ==
    {[method |-> method, results |-> rs, summary |-> sm, text |-> text, target |-> FALSE,
      raised |-> "none"]} \union
    {[method |-> method, results |-> rs, summary |-> sm, text |-> text, target |-> TRUE,
      fault |-> fault, before |-> fs, after |-> Save(text, fs, fault).fs,
      raised |-> Save(text, fs, fault).raised] : 
        <<fs, fault>> \in {p \in FileSystems \X UNION {Faults(f, text) : f \in FileSystems} :
                              p[2] \in Faults(p[1], text)}}

ToJson ==
    /\ pc \in {"idle", "completed"}
    /\ report = None
    /\ report' \in Reports("to_json", results, get_summary(results, start_time, end_time),
                           to_json(results, get_summary(results, start_time, end_time), now))
    /\ UNCHANGED <<pc, total, tests, results, start_time, end_time, now, monotonic, returned,
                   summary, runs, call>>

ToHtml ==
    /\ pc \in {"idle", "completed"}
    /\ report = None
    /\ report' \in Reports("to_html", results, get_summary(results, start_time, end_time),
                           to_html(results, get_summary(results, start_time, end_time), now))
    /\ UNCHANGED <<pc, total, tests, results, start_time, end_time, now, monotonic, returned,
                   summary, runs, call>>

NextReport ==
    \/ \E n \in 0..MaxReportTests : FirstEnter(n, Still)
    \/ Step(ReportCatalogue, Still)
    \/ Finish(Still)
    \/ ToJson
    \/ ToHtml

SpecReport == Init /\ [][NextReport]_vars

(***************************************************************************)
(* Properties of the reports.                                              *)
(***************************************************************************)
Reported(method) == report # None /\ report.method = method

ResultKeys == {"name", "status", "duration", "message", "details", "timestamp"}

CountKeys == {"total", "passed", "failed", "errors", "skipped"}

\* the parsed entry holds the fields of the TestResult
SameResult(entry, r) ==
    /\ entry.tag = "dict"
    /\ DOMAIN entry.d = ResultKeys
    /\ entry.d.name = r.name
    /\ entry.d.status = PyStr(r.status)
    /\ entry.d.duration = PyFloat(r.duration)
    /\ entry.d.message = PyStr(r.message)
    /\ entry.d.timestamp = PyStr(r.timestamp)
    /\ entry.d.details.tag = "dict"
    /\ DOMAIN entry.d.details.d = DOMAIN r.details
    /\ \A k \in DOMAIN r.details :
          entry.d.details.d[k] = IF k = "exists" THEN PyBool(r.details[k]) ELSE r.details[k]

\* the parsed summary holds the figures of the Summary
SameSummary(parsed, sm) ==
    /\ parsed.tag = "dict"
    /\ DOMAIN parsed.d = CountKeys \union {"duration", "success_rate"}
    /\ \A k \in CountKeys : parsed.d[k] = PyInt(sm[k])
    /\ parsed.d.duration = PyFloat(sm.duration)
    /\ parsed.d.success_rate = PyFloat(sm.success_rate)

\* C18: the text to_json emits, parsed, holds the summary unchanged and one
\* entry per result, in the order of the input, each with name, status (its
\* string tag), duration, message, details and timestamp equal to the
\* result's.
C18_JsonRoundTrip ==
    Reported("to_json") =>
        LET parsed == Loads(report.text)
        IN  /\ parsed.tag = "dict"
            /\ DOMAIN parsed.d = {"generated", "summary", "results"}
            /\ SameSummary(parsed.d.summary, report.summary)
            /\ parsed.d.results.tag = "list"
            /\ Len(parsed.d.results.xs) = Len(report.results)
            /\ \A i \in 1..Len(report.results) :
                  SameResult(parsed.d.results.xs[i], report.results[i])

\* a passed file_exists named A followed by an unknown type named Test 2
C18_Witness ==
    /\ Reported("to_json")
    /\ Len(report.results) = 2
    /\ report.results[1].status = PASSED
    /\ report.results[1].name = PyStr("A")
    /\ "exists" \in DOMAIN report.results[1].details
    /\ report.results[2].status = ERROR
    /\ report.results[2].name = PyStr("Test 2")
    /\ Loads(report.text).d.results.xs[2].d.name = PyStr("Test 2")

\* the figures of the JSON summary
SummaryFigures == CountKeys \union {"duration", "success_rate"}

\* the display colors of the spec
Green == "#27ca40"

Red == "#ff5f56"

Yellow == "#ffbd2e"

\* C19: the HTML report carries the content of the JSON report: a labeled
\* stat card for each figure of the summary, one table row per result in
\* results order with the same per-result fields, and the status colored
\* green for Passed, red for Failed and Error, yellow for Skipped.
C19_HtmlCarriesJsonContent ==
    Reported("to_html") =>
        /\ \A figure \in SummaryFigures :
              \E i \in 1..Len(report.text.cards) : report.text.cards[i].figure = figure
        /\ Len(report.text.rows) = Len(report.results)
        /\ \A i \in 1..Len(report.results) :
              /\ ResultKeys \subseteq DOMAIN report.text.rows[i].cells
              /\ report.text.rows[i].cells.name = report.results[i].name
              /\ report.text.rows[i].cells.message = report.results[i].message
              /\ report.text.rows[i].color =
                    CASE report.results[i].status = PASSED -> Green
                      [] report.results[i].status \in {FAILED, ERROR} -> Red
                      [] report.results[i].status = SKIPPED -> Yellow

\* C20: with an output target, missing parent directories are created
\* before the write; if the write fails the target holds no partial content
\* (it is the complete report, or as it was before) and the failure reaches
\* the caller as an error.
C20_NoPartialReport ==
    (report # None /\ report.target) =>
        /\ report.fault.at \in {"none", "write"} => report.after.parent
        /\ report.fault.at = "none" =>
              (report.after.file = File(report.text) /\ report.raised = "none")
        /\ report.fault.at # "none" =>
              /\ report.raised # "none"
              /\ report.after.file \in {report.before.file, File(report.text)}

(***************************************************************************)
(* Direct calls of all seven validators: validate_file_exists joins the    *)
(* six above.                                                              *)
(***************************************************************************)
\* a text path, or None in its place
ExistsParams == {[path |-> p] : p \in {AssetPath, PyStr("notes"), None}}

\* what Path(path).exists() answers
ExistsEnvs == {[exists |-> b] : b \in BOOLEAN}

CallFileExists ==
    /\ RunnerIdle
    /\ \E params \in ExistsParams, env \in ExistsEnvs : call' = Called("file_exists", params, env)

NextCalls ==
    \/ CallFileExists
    \/ CallFileFormat
    \/ CallFileSize
    \/ CallJsonSchema
    \/ CallChecksum
    \/ CallVideoCodec
    \/ CallResolution

SpecCalls == Init /\ [][NextCalls]_vars

(***************************************************************************)
(* Properties of the Skipped status.                                       *)
(***************************************************************************)
\* the call returned a TestResult (no exception left the validator)
Returned == call # None /\ ~IsRaise(call.result)

ProbeValidators == {"video_codec", "resolution"}

\* the target file cannot be read: it is missing or access is refused
TargetMissing ==
    CASE call.validator = "file_exists" -> ~call.env.exists
      [] call.validator = "file_size" -> call.env.stat = "error"
      [] call.validator = "checksum" -> call.env.file = "unreadable"
      [] call.validator = "json_schema" -> call.env.file = "unreadable"
      [] OTHER -> FALSE

\* C21: a result with status Skipped comes from video_codec or resolution
\* only, and only when the probe binary is absent; a missing or unreadable
\* target file gives Failed from file_exists and Error from file_size,
\* checksum and json_schema, never Skipped; an absent probe binary never
\* gives Failed.
C21_SkippedOnlyWithoutProbe ==
    Returned =>
        /\ call.result.status = SKIPPED =>
              (call.validator \in ProbeValidators /\ call.env.probe = "absent")
        /\ TargetMissing =>
              call.result.status = IF call.validator = "file_exists" THEN FAILED ELSE ERROR
        /\ (call.validator \in ProbeValidators /\ call.env.probe = "absent") =>
              call.result.status # FAILED

\* the codec check skipped for want of the probe
C21_Witness ==
    /\ Returned
    /\ call.validator = "video_codec"
    /\ call.env.probe = "absent"
    /\ call.result.status = SKIPPED
    /\ call.result.message = Msg("ffprobe not found - skipping codec check", <<>>)

(***************************************************************************)
(* Properties of validate_resolution.                                      *)
(***************************************************************************)
\* the keyword argument was passed and is not None
Supplied(key) == key \in DOMAIN call.params /\ call.params[key] # None

\* the expectation on a dimension is absent or equal to the detected value
Holds(key, detected) == Supplied(key) => detected = call.params[key]

\* the status the claimed rule gives for the probe's streams
ResolutionRule(env) ==
    IF Videos(env) = {} THEN FAILED
    ELSE LET stream == Streams(env.data)[First(Videos(env))]
         IN  IF /\ Holds("expected_width", Get(stream, "width", None))
                /\ Holds("expected_height", Get(stream, "height", None))
             THEN PASSED
             ELSE FAILED

\* C22: validate_resolution, when the probe returns a video stream, yields
\* Passed iff expected_width is absent or equal to the detected width and
\* expected_height is absent or equal to the detected height, and Failed
\* otherwise (Passed with neither supplied); probe output with no video
\* stream yields Failed.
C22_ResolutionMatchesExpectations ==
    (CalledAs("resolution") /\ Evaluated(call.env)) =>
        call.result.status = ResolutionRule(call.env)

\* C22 as amended: as C22 for output whose streams up to the first video
\* stream (all of them, when there is none) carry codec_type; output with
\* a stream without codec_type there gives Error.
C22_ResolutionMatchesExpectationsAmended ==
    (CalledAs("resolution") /\ Evaluated(call.env)) =>
        call.result.status =
            IF Malformed(call.env) THEN ERROR ELSE ResolutionRule(call.env)

\* the first video stream, listed after an audio stream, has the expected
\* width but not the expected height
C22_Witness ==
    /\ CalledAs("resolution")
    /\ Evaluated(call.env)
    /\ ~Malformed(call.env)
    /\ Len(Streams(call.env.data)) = 2
    /\ Videos(call.env) = {2}
    /\ Supplied("expected_width") /\ call.params.expected_width = PyInt(1)
    /\ Supplied("expected_height") /\ call.params.expected_height = PyInt(2)
    /\ call.result.status = FAILED
    /\ call.result.details.width = PyInt(1)

(***************************************************************************)
(* One suite run over declarations with and without a name, of registered  *)
(* and of unknown types.                                                   *)
(***************************************************************************)
\* declarations in the suite
MaxNamedTests == 2

\* name= of the TestResult each validator builds
DefaultNames ==
    {PyStr("File Exists Check"), PyStr("File Format Check"), PyStr("File Size Check"),
     PyStr("JSON Schema Check"), PyStr("Checksum Validation"), PyStr("Video Codec Check"),
     PyStr("Resolution Check")}

\* test_config.get('name', 'Unknown') of run_test
UnknownName == PyStr("Unknown")

NameCatalogue ==
    { Named("A", "file_exists", [path |-> AssetPath]),
      [type |-> PyStr("file_exists"), params |-> [path |-> AssetPath]],
      [name |-> PyStr("B"), type |-> PyStr("nonexistent")],
      [type |-> PyStr("nonexistent")],
      [params |-> [path |-> AssetPath]],
      [name |-> UnknownName, type |-> PyStr("nonexistent")],
      Named("File Exists Check", "file_exists", [path |-> AssetPath]) }

NextNames ==
    \/ \E n \in 0..MaxNamedTests : FirstEnter(n, Still)
    \/ Step(NameCatalogue, Still)
    \/ Finish(Still)

SpecNames == Init /\ [][NextNames]_vars

(***************************************************************************)
(* Properties of the names of the stored results.                          *)
(***************************************************************************)
HasName(test_config) == "name" \in DOMAIN test_config

\* C23: the result run_suite appends for the i-th declaration (from 1) is
\* named with the declaration's name when it has one and 'Test i'
\* otherwise, whether its type is registered or unknown; 'Unknown' and the
\* validators' default names never name a stored result in place of that
\* (they appear only where the declaration itself is so named).
C23_StoredNames ==
    \A i \in 1..Len(results) :
        /\ results[i].name =
              IF HasName(tests[i]) THEN tests[i].name ELSE PyStr("Test " \o ToString(i))
        /\ results[i].name \in DefaultNames \union {UnknownName} =>
              (HasName(tests[i]) /\ tests[i].name = results[i].name)

\* an unnamed declaration of a registered type after an unnamed one of an
\* unknown type: run_test named their results 'Unknown' and 'File Exists
\* Check'
C23_Witness ==
    /\ Len(results) = 2
    /\ ~HasName(tests[1]) /\ TypeOf(tests[1]) \notin RegisteredTypes
    /\ ~HasName(tests[2]) /\ TypeOf(tests[2]) = PyStr("file_exists")
    /\ returned # None /\ returned.name = PyStr("File Exists Check")
    /\ results[1].name = PyStr("Test 1")
    /\ results[2].name = PyStr("Test 2")

(***************************************************************************)
(* One suite run under a clock whose readings are drawn freely; monotonic  *)
(* tells the runs in which no reading was below the one before it.         *)
(***************************************************************************)
\* declarations in the suite
MaxSpanTests == 2

\* the latest clock reading
MaxSpanTime == 2

SpanTimes == 0..MaxSpanTime

\* a declaration of a registered type (its validator reads the clock at
\* entry and at return) and one of an unknown type (duration 0)
SpanCatalogue ==
    { Named("A", "file_format", [path |-> AssetPath, expected_ext |-> PyStr("png")]),
      [type |-> PyStr("nonexistent")] }

NextSpan ==
    \/ \E n \in 0..MaxSpanTests : FirstEnter(n, SpanTimes)
    \/ Step(SpanCatalogue, SpanTimes)
    \/ Finish(SpanTimes)

SpecSpan == Init /\ [][NextSpan]_vars

(***************************************************************************)
(* Properties of the durations.                                            *)
(***************************************************************************)
\* the sum of the durations of rs[i..]
RECURSIVE SumDurations(_, _, _)
SumDurations(rs, i, acc) ==
    IF i > Len(rs) THEN acc ELSE SumDurations(rs, i + 1, acc + rs[i].duration)

\* C24: after a completed run_suite under a clock that never went
\* backwards, the duration of the summary is at least the sum of the
\* durations of the results of that run.
C24_SpanCoversDurations ==
    (pc = "completed" /\ monotonic) =>
        get_summary(results, start_time, end_time).duration >= SumDurations(results, 1, 0)

\* two results of positive duration that fill the span
C24_Witness ==
    /\ pc = "completed"
    /\ monotonic
    /\ Len(results) = 2
    /\ results[1].duration = 1
    /\ results[2].duration = 1
    /\ get_summary(results, start_time, end_time).duration = 2

====
